---- MODULE Spec2Model ----
(***************************************************************************)
(* Model of OpenAccessWikiData (src/__init__.py): the statement builder,   *)
(* the lookup, the create / reconcile branches of _sync_wikidata_artwork   *)
(* and the two entry points update_wikidata and batch_sync.                *)
(*                                                                         *)
(* Python values are represented as follows.  A nullable value is a tuple: *)
(* <<>> is None (or an absent key), <<v>> is the value v.  Text is a TLA+  *)
(* string, except where the code takes a string apart (str(item) in        *)
(* batch_sync), where it is a tuple of one-character strings.              *)
(***************************************************************************)
EXTENDS Integers, Sequences, FiniteSets, TLC

VARIABLES artworks, items, last

vars == <<artworks, items, last>>

\* Bounds of the model.
MaxItems == 3
MaxBatch == 2

None == <<>>
Some(v) == <<v>>

RECURSIVE SeqToSet(_)
SeqToSet(s) == IF s = <<>> THEN {} ELSE {Head(s)} \cup SeqToSet(Tail(s))

Contains(s, v) == \E i \in 1..Len(s) : s[i] = v

(***************************************************************************)
(* The artwork records the callers hand in.  Only external_resources is    *)
(* ever changed by the program (batch_sync); the other fields are inputs.  *)
(***************************************************************************)
ImageUrl == "https://openaccess-cdn.clevelandart.org/1916.1/1916.1_print.jpg"

Artwork(acc, title, type, license, image, earliest, latest, creators) ==
    [accession_number |-> acc,
     title |-> title,
     url |-> "https://clevelandart.org/art/" \o acc,
     creation_date_earliest |-> earliest,
     creation_date_latest |-> latest,
     creators |-> creators,
     share_license_status |-> license,
     type |-> type,
     images |-> image,
     external_resources |-> [wikidata |-> <<>>]]

WithoutAccession(a) == [k \in DOMAIN a \ {"accession_number"} |-> a[k]]

Images == Some([print |-> [url |-> ImageUrl]])

\* The records of the model.
CC0WithImage ==
    Artwork("1916.1", "Relief of a Woman", "Relief", "CC0", Images,
            None, None, <<>>)

CopyrightedWithImage ==
    Artwork("1916.1", " Relief of\na Woman ", "Ivory", "Copyrighted", Images,
            Some(1900), Some(1900),
            <<[description |-> "Artist A"], [description |-> ""]>>)

CC0WithoutImage ==
    Artwork("1920.2", "Untitled", "Miscellaneous", "CC0", None,
            Some(1900), Some(1910),
            <<[description |-> "Artist A"], [description |-> "Artist B"]>>)

OtherLicense ==
    Artwork("1920.2", "Untitled", "Painting", "Other", Images,
            Some(0), Some(0), <<[description |-> ""]>>)

NoAccessionNumber ==
    WithoutAccession(Artwork("", "Untitled", "Painting", "Other", None,
                             None, None, <<>>))

UnknownType ==
    Artwork("1930.3", "Untitled", "Video Game", "CC0", Images,
            None, None, <<>>)

\* The lists of records a caller holds; artworks is one of them.
SameAccession == <<CC0WithImage, CopyrightedWithImage>>

Unsyncable == <<CC0WithoutImage, NoAccessionNumber>>

Mixed == <<OtherLicense, UnknownType>>

TwoWorks == <<CC0WithImage, CC0WithoutImage>>

(***************************************************************************)
(* Statement Builder: lines 209-401 of _sync_wikidata_artwork.             *)
(***************************************************************************)
\* A claim as the remote store keeps it; its signature is the mainsnak.
Claim(property, value, qualifiers) ==
    [property |-> property, value |-> value, qualifiers |-> qualifiers]

mainsnak(clm) == [property |-> clm.property, value |-> clm.value]

Institution == "Q657415"

institution_prop == Claim("P195", Institution, {})

accession_number_prop(accession_number) ==
    Claim("P217", accession_number, {[property |-> "P195", value |-> Institution]})

instance_prop == Claim("P31", "Q18593264", {})

\* title.rstrip().lstrip().replace('\n', ' ').replace('\r', ' ') on the
\* titles of ArtworkRecords.
StripTitle(t) ==
    CASE t = " Relief of\na Woman " -> "Relief of a Woman"
      [] OTHER -> t

\* WbMonolingualText(title, 'en')
MonolingualText(text) == "en:" \o text

title_prop(title) == Claim("P1476", MonolingualText(title), {})

url_prop(url) == Claim("P973", url, {})

\* Python truthiness of a nullable year: None and 0 are false.
TruthyYear(y) == y # None /\ y[1] # 0

RECURSIVE YearText(_)
YearText(n) ==
    LET d == <<"0", "1", "2", "3", "4", "5", "6", "7", "8", "9">>
    IN IF n < 10 THEN d[n + 1] ELSE YearText(n \div 10) \o d[(n % 10) + 1]

\* WbTime(year=...)
WbTime(year) == "+" \o YearText(year) \o "-00-00T00:00:00Z"

created_claims(artwork) ==
    IF artwork.creation_date_earliest = artwork.creation_date_latest
       /\ TruthyYear(artwork.creation_date_earliest)
    THEN <<Claim("P571", WbTime(artwork.creation_date_earliest[1]), {})>>
    ELSE <<>>

\* The loop of lines 276-278: ' ' + description + ';' for every creator
\* with a non-empty description.
RECURSIVE JoinCreators(_)
JoinCreators(creators) ==
    IF creators = <<>> THEN ""
    ELSE IF Head(creators).description # ""
         THEN " " \o Head(creators).description \o ";" \o JoinCreators(Tail(creators))
         ELSE JoinCreators(Tail(creators))

\* author_target[:-1].lstrip() on a string built by JoinCreators: the
\* leading blank and the last semicolon are dropped.
TrimAuthor(s) == IF s = "" THEN "" ELSE SubSeq(s, 2, Len(s) - 1)

author_target(artwork) ==
    LET joined == IF Len(artwork.creators) > 0
                  THEN TrimAuthor(JoinCreators(artwork.creators))
                  ELSE "unknown artist"
    IN IF Len(joined) = 0 THEN "unknown artist" ELSE joined

copyright_claims(artwork) ==
    LET determination == {[property |-> "P459", value |-> "Q61848113"]}
    IN CASE artwork.share_license_status = "Copyrighted" ->
              <<Claim("P6216", "Q50423863", determination)>>
         [] artwork.share_license_status = "CC0" ->
              <<Claim("P6216", "Q19652", determination)>>
         [] OTHER -> <<>>

\* entities['type'], restricted to the types of ArtworkRecords and one
\* entry of each shape: a Qid string, the empty string, a nested dict.
entities ==
    [Relief |-> [str |-> TRUE, value |-> "Q11060274"],
     Painting |-> [str |-> TRUE, value |-> "Q3305213"],
     Miscellaneous |-> [str |-> TRUE, value |-> ""],
     Ivory |-> [str |-> FALSE, value |-> "Q82001"]]

type_claims(artwork) ==
    LET e == entities[artwork.type]
    IN IF e.str /\ e.value # "" THEN <<Claim("P31", e.value, {})>> ELSE <<>>

\* lower() on the types of ArtworkRecords.
Lower(type) ==
    CASE type = "Relief" -> "relief"
      [] type = "Painting" -> "painting"
      [] type = "Miscellaneous" -> "miscellaneous"
      [] type = "Ivory" -> "ivory"
      [] OTHER -> type

\* artwork.get('images') is truthy.
HasImages(artwork) == artwork.images # None

commons_built_any_license(artwork) == HasImages(artwork)

\* Lines 376-384: the target of commons_prop is set only for CC0 with images.
commons_built(artwork) ==
    artwork.share_license_status = "CC0" /\ HasImages(artwork)

commons_prop(artwork) ==
    Claim("P4765", artwork.images[1].print.url,
          {[property |-> "P2093", value |-> author_target(artwork)],
           [property |-> "P1476", value |-> MonolingualText(StripTitle(artwork.title))],
           [property |-> "P2701", value |-> "Q2195"],
           [property |-> "P275", value |-> "Q6938433"],
           [property |-> "P137", value |-> Institution],
           [property |-> "P2699", value |-> artwork.url]})

TextLimit == 250

Truncate(s) == IF Len(s) > TextLimit THEN SubSeq(s, 1, TextLimit) ELSE s

label(artwork) == Truncate(StripTitle(artwork.title))

description(artwork) ==
    Truncate("(" \o artwork.accession_number \o ") " \o Lower(artwork.type)
             \o " by " \o author_target(artwork))

\* The description the create-entity call submits (line 400).
create_description(accession_number) ==
    "artwork in the Cleveland Museum of Art's collection (" \o accession_number \o ")"

\* The list `claims` after the builder has run (lines 218-374).
claims(artwork) ==
    <<institution_prop, accession_number_prop(artwork.accession_number),
      instance_prop, title_prop(StripTitle(artwork.title)), url_prop(artwork.url)>>
    \o created_claims(artwork) \o copyright_claims(artwork) \o type_claims(artwork)

(***************************************************************************)
(* The remote store.  items[q] is the item with identifier Q<q>.           *)
(***************************************************************************)
Item(labels, descriptions, clms) ==
    [labels |-> labels, descriptions |-> descriptions, claims |-> clms]

DigitChar == <<"0", "1", "2", "3", "4", "5", "6", "7", "8", "9">>

RECURSIVE Digits(_)
Digits(n) ==
    IF n < 10 THEN <<DigitChar[n + 1]>>
    ELSE Digits(n \div 10) \o <<DigitChar[(n % 10) + 1]>>

\* str(item) of an ItemPage: "[[wikidata:Q<q>]]", character by character.
StrItem(q) ==
    <<"[", "[", "w", "i", "k", "i", "d", "a", "t", "a", ":", "Q">>
    \o Digits(q) \o <<"]", "]">>

\* The SPARQL query of line 407: the items holding a P217 statement with
\* this value, qualified by P195 = Q657415.
Matches(item, accession_number) ==
    \E i \in 1..Len(item.claims) :
        /\ item.claims[i].property = "P217"
        /\ item.claims[i].value = accession_number
        /\ [property |-> "P195", value |-> Institution] \in item.claims[i].qualifiers

RECURSIVE Bindings(_, _, _)
Bindings(store, accession_number, q) ==
    IF q > Len(store) THEN <<>>
    ELSE (IF Matches(store[q], accession_number) THEN <<q>> ELSE <<>>)
         \o Bindings(store, accession_number, q + 1)

Lookup(store, accession_number) == Bindings(store, accession_number, 1)

(***************************************************************************)
(* One call of the external client, as the sync records it.                *)
(***************************************************************************)
\* call is the client method, item the Qid number it acts on (0 when no
\* item came to exist), ok whether it went through, property the property
\* of the claim of an addClaim, text the label or description submitted
\* (for editEntity: both), claims the claims submitted.
Write(call, q, ok, property, text, clms) ==
    [call |-> call, item |-> q, ok |-> ok, property |-> property,
     text |-> text, claims |-> clms]

\* What a sync has done so far: the store, the calls issued, the message,
\* the identifier to return, and the exception that ended it ("" if none).
Ctx(store, writes, output, item_return, exception) ==
    [items |-> store, writes |-> writes, output |-> output,
     item_return |-> item_return, exception |-> exception]

Faults == {"none", "lookup_parse", "create_conflict", "label_edit", "description_edit"}

AddClaimTo(store, q, clm) ==
    [store EXCEPT ![q].claims = Append(@, clm)]

\* Lines 417-438: the create branch.
CreateBranch(c, artwork, fault) ==
    LET accession_number == artwork.accession_number
        newitem == Item(Some(label(artwork)),
                        Some(create_description(accession_number)),
                        claims(artwork))
        q == Len(c.items) + 1
        edit(ok) == Write("editEntity", IF ok THEN q ELSE 0, ok, "",
                          <<label(artwork), create_description(accession_number)>>,
                          claims(artwork))
        add(ok) == Write("addClaim", q, ok, "P4765", <<>>,
                         IF commons_built(artwork) THEN <<commons_prop(artwork)>> ELSE <<>>)
    IN IF fault = "create_conflict"
       THEN \* OtherPageSaveError, lines 435-438
            Ctx(c.items, Append(c.writes, edit(FALSE)),
                Append(c.output, "Failed to upload: OtherPageSaveError"),
                c.item_return, "")
       ELSE IF commons_built(artwork)
       THEN Ctx(AddClaimTo(Append(c.items, newitem), q, commons_prop(artwork)),
                c.writes \o <<edit(TRUE), add(TRUE)>>,
                Append(c.output, "Uploaded"),
                StrItem(q), "")
       ELSE \* AttributeError, lines 429-434
            Ctx(Append(c.items, newitem),
                c.writes \o <<edit(TRUE), add(FALSE)>>,
                Append(c.output, "Failed to upload: AttributeError, null image"),
                c.item_return, "")

EditTextAlways(c, q, field, call, stored, computed, fails) ==
    LET w == Write(call, q, ~fails, "", <<computed>>, <<>>)
        edited == IF field = "labels"
                  THEN [c.items EXCEPT ![q].labels = Some(computed)]
                  ELSE [c.items EXCEPT ![q].descriptions = Some(computed)]
    IN IF fails
       THEN [c EXCEPT !.writes = Append(@, w),
                      !.exception = IF stored = None THEN "APIError" ELSE ""]
       ELSE [c EXCEPT !.items = edited, !.writes = Append(@, w),
                      !.output = Append(@, "Synchronizing changes to " \o field)]

\* Lines 449-458 (labels) and 459-468 (descriptions): stored is the item's
\* English value, computed the fresh one, fails whether the edit call raises.
\* Returns the context after the block.
EditText(c, q, field, call, stored, computed, fails) ==
    LET w == Write(call, q, ~fails, "", <<computed>>, <<>>)
        edited == IF field = "labels"
                  THEN [c.items EXCEPT ![q].labels = Some(computed)]
                  ELSE [c.items EXCEPT ![q].descriptions = Some(computed)]
        msg == "Synchronizing changes to " \o field
    IN IF stored # None
       THEN IF stored[1] # computed
            THEN IF fails
                 THEN \* raised inside try: the bare except finds an 'en'
                      \* value and does nothing
                      [c EXCEPT !.writes = Append(@, w)]
                 ELSE [c EXCEPT !.items = edited, !.writes = Append(@, w),
                                !.output = Append(@, msg)]
            ELSE c
       ELSE \* KeyError inside try: the except block issues the edit
            IF fails
            THEN [c EXCEPT !.writes = Append(@, w), !.exception = "APIError"]
            ELSE [c EXCEPT !.items = edited, !.writes = Append(@, w),
                           !.output = Append(@, msg)]

SignaturesForgotten(item) == {}

\* Lines 470-475: the deduplicated mainsnaks of the item's claims.
Signatures(item) == {mainsnak(item.claims[i]) : i \in 1..Len(item.claims)}

Properties(item) == {item.claims[i].property : i \in 1..Len(item.claims)}

ReconcileCommonsUnguarded(c, q, artwork) ==
    IF /\ artwork.share_license_status = "CC0"
       /\ HasImages(artwork)
       /\ "P18" \notin Properties(c.items[q])
    THEN [c EXCEPT !.items = AddClaimTo(@, q, commons_prop(artwork)),
                   !.writes = Append(@, Write("addClaim", q, TRUE, "P4765", <<>>,
                                              <<commons_prop(artwork)>>)),
                   !.output = Append(@, "Synchronizing missing 'P4765' claim")]
    ELSE c

\* Lines 477-487: the Commons-media claim of the reconcile branch.
ReconcileCommons(c, q, artwork) ==
    IF /\ artwork.share_license_status = "CC0"
       /\ HasImages(artwork)
       /\ "P18" \notin Properties(c.items[q])
       /\ "P4765" \notin Properties(c.items[q])
    THEN [c EXCEPT !.items = AddClaimTo(@, q, commons_prop(artwork)),
                   !.writes = Append(@, Write("addClaim", q, TRUE, "P4765", <<>>,
                                              <<commons_prop(artwork)>>)),
                   !.output = Append(@, "Synchronizing missing 'P4765' claim")]
    ELSE c

\* Lines 491-494: one statement of the loop.
AddIfMissing(c, q, stmnt, clms) ==
    IF mainsnak(stmnt) \notin clms
    THEN [c EXCEPT !.items = AddClaimTo(@, q, stmnt),
                   !.writes = Append(@, Write("addClaim", q, TRUE, stmnt.property, <<>>,
                                              <<stmnt>>)),
                   !.output = Append(@, "Synchronizing missing '"
                                        \o stmnt.property \o "' claim")]
    ELSE c

\* Lines 489-495: the statements whose mainsnak is not among clms.
RECURSIVE AddMissing(_, _, _, _)
AddMissing(c, q, stmnts, clms) ==
    IF stmnts = <<>> THEN c
    ELSE AddMissing(AddIfMissing(c, q, Head(stmnts), clms), q, Tail(stmnts), clms)

\* Lines 445-458: the message, the identifier to return, and the label.
ReconcileLabel(c, q, artwork, fault) ==
    EditText([c EXCEPT !.output = Append(@, "syncing"), !.item_return = StrItem(q)],
             q, "labels", "editLabels", c.items[q].labels, label(artwork),
             fault = "label_edit")

\* Lines 459-468.
ReconcileDescription(c, q, artwork, fault) ==
    IF c.exception # "" THEN c
    ELSE EditText(c, q, "descriptions", "editDescriptions", c.items[q].descriptions,
                  description(artwork), fault = "description_edit")

\* Lines 470-495: clms is taken before the Commons-media claim is added.
ReconcileClaims(c, q, artwork) ==
    IF c.exception # "" THEN c
    ELSE AddMissing(ReconcileCommons(c, q, artwork), q, claims(artwork),
                    Signatures(c.items[q]))

\* Lines 442-495: the reconcile branch on the one item the lookup returned.
ReconcileBranch(c, q, artwork, fault) ==
    ReconcileClaims(
        ReconcileDescription(ReconcileLabel(c, q, artwork, fault), q, artwork, fault),
        q, artwork)

\* The two tests on the lookup result, lines 417 and 442.
IsNoMatchOrOne(check) == Len(check) <= 1

IsNoMatch(check) == Len(check) = 0

IsAnyMatch(check) == Len(check) >= 1

IsOneMatch(check) == Len(check) = 1

(***************************************************************************)
(* _sync_wikidata_artwork, lines 121-497.  The result says how the call    *)
(* ended: ret = "tuple" (output, item_return), ret = "none" (line 413) or  *)
(* ret = "raise" with the exception.                                       *)
(***************************************************************************)
SyncResult(ret, c, matches) ==
    [ret |-> IF c.exception # "" THEN "raise" ELSE ret,
     exception |-> c.exception, output |-> c.output,
     item_return |-> c.item_return, writes |-> c.writes, items |-> c.items,
     matches |-> matches]

\* Lines 442-497, after the create branch has or has not run.
SyncFound(created, check, artwork, fault) ==
    SyncResult("tuple",
               IF IsOneMatch(check)
               THEN ReconcileBranch(created, check[1], artwork, fault)
               ELSE created,
               Len(check))

\* Lines 415-497, on the bindings the lookup returned.
SyncChecked(start, check, artwork, fault) ==
    SyncFound(IF IsNoMatch(check) THEN CreateBranch(start, artwork, fault) ELSE start,
              check, artwork, fault)

\* Lines 128-413, on the context the sync starts with.
SyncBuilt(start, artwork, fault) ==
    IF "accession_number" \notin DOMAIN artwork
    THEN \* line 232: output += e, a str and a KeyError
         SyncResult("raise", [start EXCEPT !.exception = "TypeError"], -1)
    ELSE IF artwork.type \notin DOMAIN entities
    THEN \* line 370
         SyncResult("raise", [start EXCEPT !.exception = "KeyError"], -1)
    ELSE IF fault = "lookup_parse"
    THEN \* line 413
         SyncResult("none", start, -1)
    ELSE SyncChecked(start, Lookup(start.items, artwork.accession_number),
                     artwork, fault)

_sync_wikidata_artwork(store, artwork, fault) ==
    SyncBuilt(Ctx(store, <<>>, <<>>, None, ""), artwork, fault)

(***************************************************************************)
(* The entry points.  last records the most recent call: its arguments,    *)
(* how it ended, and for every record it synced the result of the sync     *)
(* and the store the sync started from.                                    *)
(***************************************************************************)
Synced(id, store, r) ==
    [id |-> id, before |-> store, ret |-> r.ret, exception |-> r.exception,
     output |-> r.output, item_return |-> r.item_return, writes |-> r.writes,
     matches |-> r.matches]

Call(op, ids, ret, exception, syncs, result) ==
    [op |-> op, ids |-> ids, ret |-> ret, exception |-> exception,
     syncs |-> syncs, result |-> result]

\* message, item = <result of the sync>: the exception the caller's line
\* ends with, "" when it goes through.  Unpacking None raises TypeError.
Unpacked(r) ==
    CASE r.ret = "raise" -> r.exception
      [] r.ret = "none" -> "TypeError"
      [] OTHER -> ""

\* Lines 59-60, on the result r of the sync.
Updated(id, r) ==
    /\ Len(r.items) <= MaxItems
    /\ items' = r.items
    /\ last' = Call("update_wikidata", <<id>>,
                    IF Unpacked(r) # "" THEN "raise" ELSE "return", Unpacked(r),
                    <<Synced(id, items, r)>>, <<>>)
    /\ UNCHANGED artworks

\* Lines 55-60.
update_wikidata(id, fault) ==
    Updated(id, _sync_wikidata_artwork(items, artworks[id], fault))

\* item.split(':')[1]
RECURSIVE UpTo(_, _)
UpTo(s, sep) ==
    IF s = <<>> \/ Head(s) = sep THEN <<>> ELSE <<Head(s)>> \o UpTo(Tail(s), sep)

RECURSIVE After(_, _)
After(s, sep) ==
    IF s = <<>> THEN <<>>
    ELSE IF Head(s) = sep THEN Tail(s) ELSE After(Tail(s), sep)

SplitSecond(s, sep) == UpTo(After(s, sep), sep)

\* re.sub(r'\W+', '', s): only letters, digits and the underscore stay.
WordChars ==
    {"Q", "w", "i", "k", "d", "a", "t", "_",
     "0", "1", "2", "3", "4", "5", "6", "7", "8", "9"}

RECURSIVE StripNonWord(_)
StripNonWord(s) ==
    IF s = <<>> THEN <<>>
    ELSE (IF Head(s) \in WordChars THEN <<Head(s)>> ELSE <<>>) \o StripNonWord(Tail(s))

\* Line 73.
wikidata_url(item) ==
    <<"https://www.wikidata.org/wiki/">> \o StripNonWord(SplitSecond(item, ":"))

WithUrlAppended(artwork_json, item) ==
    IF item # None
    THEN [artwork_json EXCEPT !.external_resources.wikidata =
                                  Append(@, wikidata_url(item))]
    ELSE artwork_json

\* Lines 72-75: the record after the sync returned item.
WithUrl(artwork_json, item) ==
    IF item # None
       /\ ~Contains(artwork_json.external_resources.wikidata, wikidata_url(item))
    THEN [artwork_json EXCEPT !.external_resources.wikidata =
                                  Append(@, wikidata_url(item))]
    ELSE artwork_json

\* Lines 66-77: the loop of batch_sync over ids[i..], stopping at the
\* first exception.  st holds the store, the records, the syncs done and
\* result_list, which refers to the records it holds by their ids (the
\* list holds the caller's dicts, not copies).
RECURSIVE BatchLoop(_, _, _, _)
\* Lines 69-76, on the result r of the sync of ids[i].
BatchStep(st, ids, faults, i, r) ==
    IF Unpacked(r) # ""
    THEN [st EXCEPT !.items = r.items,
                    !.syncs = Append(@, Synced(ids[i], st.items, r)),
                    !.exception = Unpacked(r)]
    ELSE BatchLoop([st EXCEPT !.items = r.items,
                              !.artworks[ids[i]] = WithUrl(@, r.item_return),
                              !.syncs = Append(@, Synced(ids[i], st.items, r)),
                              !.result_list = Append(@, ids[i])],
                   ids, faults, i + 1)

BatchLoop(st, ids, faults, i) ==
    IF i > Len(ids) THEN st
    ELSE BatchStep(st, ids, faults, i,
                   _sync_wikidata_artwork(st.items, st.artworks[ids[i]], faults[i]))

\* Line 77, on the state st the loop ended in.
Batched(ids, st) ==
    /\ Len(st.items) <= MaxItems
    /\ items' = st.items
    /\ artworks' = st.artworks
    /\ last' = Call("batch_sync", ids,
                    IF st.exception # "" THEN "raise" ELSE "return", st.exception,
                    st.syncs,
                    IF st.exception # "" THEN <<>>
                    ELSE [k \in 1..Len(st.result_list) |->
                              st.artworks[st.result_list[k]]])

\* Lines 62-77.
batch_sync(ids, faults) ==
    Batched(ids, BatchLoop([items |-> items, artworks |-> artworks, syncs |-> <<>>,
                            result_list |-> <<>>, exception |-> ""],
                           ids, faults, 1))

(***************************************************************************)
(* Items that exist before the program runs: one made by hand for 1916.1   *)
(* (no English label, an image, a statement entered twice), and one whose  *)
(* accession number lacks the institution qualifier.                       *)
(***************************************************************************)
HandMade ==
    Item(None, Some("relief in Cleveland"),
         <<accession_number_prop("1916.1"), Claim("P18", "Relief of a Woman.jpg", {}),
           instance_prop, instance_prop>>)

Unqualified ==
    Item(Some("Untitled"), None, <<Claim("P217", "1920.2", {})>>)

\* The states the program starts in: the caller's records and the store.
Scenarios ==
    {<<SameAccession, <<>>>>, <<SameAccession, <<HandMade, Unqualified>>>>,
     <<Unsyncable, <<>>>>, <<Mixed, <<HandMade, Unqualified>>>>}


\* The lists batch_sync is called with: up to MaxBatch of the caller's
\* records, in any order, a record possibly more than once.
Batches(n) == [1..n -> DOMAIN artworks]

\* At most one lookup fails in a batch: the one for the k-th record (none
\* when k = 0).
FaultAt(ids, k) == [i \in 1..Len(ids) |-> IF i = k THEN "lookup_parse" ELSE "none"]

Init ==
    /\ \E sc \in Scenarios : artworks = sc[1] /\ items = sc[2]
    /\ last = Call("none", <<>>, "return", "", <<>>, <<>>)

UpdateWikidata == \E id \in DOMAIN artworks, fault \in Faults : update_wikidata(id, fault)

BatchSync ==
    \E n \in 0..MaxBatch :
        \E ids \in Batches(n), k \in 0..n : batch_sync(ids, FaultAt(ids, k))

Next == UpdateWikidata \/ BatchSync

Spec == Init /\ [][Next]_vars

\* A caller that only uses update_wikidata.
SpecSync == Init /\ [][UpdateWikidata]_vars

\* A store in which 1916.1 was entered twice by hand: nothing on the remote
\* side keeps two items from carrying the same accession number.
Duplicate ==
    Item(Some("Relief of a Woman"), Some("duplicate entry"),
         <<accession_number_prop("1916.1")>>)

InitDuplicates ==
    /\ \E sc \in {<<TwoWorks, <<HandMade, Duplicate>>>>,
                   <<TwoWorks, <<Duplicate, HandMade>>>>,
                   <<SameAccession, <<Duplicate, HandMade>>>>,
                   <<SameAccession, <<HandMade, Duplicate, Duplicate>>>>} :
           artworks = sc[1] /\ items = sc[2]
    /\ last = Call("none", <<>>, "return", "", <<>>, <<>>)

SpecDuplicates == InitDuplicates /\ [][Next]_vars

(***************************************************************************)
(* Reading the record of the last call.                                    *)
(***************************************************************************)
Syncs == {last.syncs[i] : i \in 1..Len(last.syncs)}

\* The store the i-th sync of the last call left behind.
StoreAfter(i) == IF i < Len(last.syncs) THEN last.syncs[i + 1].before ELSE items

Calls(s, call) == {k \in 1..Len(s.writes) : s.writes[k].call = call}

Created(s) == \E k \in Calls(s, "editEntity") : s.writes[k].ok

Reconciled(s) == s.matches = 1

\* The item a reconciling sync works on.
Target(s) == Lookup(s.before, artworks[s.id].accession_number)[1]

AccessionNumbers ==
    {artworks[id].accession_number :
        id \in {i \in DOMAIN artworks : "accession_number" \in DOMAIN artworks[i]}}

(***************************************************************************)
(* C1.  At most one remote item exists per accession number, and the       *)
(* create-entity call is issued only by a sync whose lookup returned no    *)
(* match: never when the store the sync started from already held an item  *)
(* with that accession number.                                             *)
(***************************************************************************)
C1_OneItemPerAccession ==
    /\ \A acc \in AccessionNumbers : Len(Lookup(items, acc)) <= 1
    /\ \A s \in Syncs :
          Calls(s, "editEntity") # {} =>
              /\ s.matches = 0
              /\ Lookup(s.before, artworks[s.id].accession_number) = <<>>

\* A batch whose first sync created the item and whose second sync, of a
\* record with the same accession number, found it and created nothing.
C1_Witness ==
    /\ last.op = "batch_sync"
    /\ Len(last.syncs) = 2
    /\ Created(last.syncs[1])
    /\ Reconciled(last.syncs[2])
    /\ Calls(last.syncs[2], "editEntity") = {}
    /\ artworks[last.syncs[1].id].accession_number
         = artworks[last.syncs[2].id].accession_number
    /\ Len(Lookup(items, artworks[last.syncs[1].id].accession_number)) = 1

(***************************************************************************)
(* C2.  Reconciliation is additive: the claims the item had are still      *)
(* there, in place and unchanged; every claim added has a signature the    *)
(* item did not have when the reconciliation started; no signature is      *)
(* added twice; no other item changes.  As this holds of every             *)
(* reconciliation, a later one adds none of the claims again.              *)
(***************************************************************************)
SameSignature(c1, c2) == c1.property = c2.property /\ c1.value = c2.value

C2_ReconcileIsAdditive ==
    \A i \in 1..Len(last.syncs) :
        LET s == last.syncs[i]
            q == Target(s)
            old == s.before[q].claims
            new == StoreAfter(i)[q].claims
            added == (Len(old) + 1)..Len(new)
        IN Reconciled(s) =>
              /\ Len(new) >= Len(old)
              /\ SubSeq(new, 1, Len(old)) = old
              /\ \A k \in added : \A o \in 1..Len(old) :
                    ~SameSignature(new[k], old[o])
              /\ \A k, l \in added : SameSignature(new[k], new[l]) => k = l
              /\ \A k \in Calls(s, "addClaim") :
                    \E l \in added : new[l] = s.writes[k].claims[1]
              /\ Cardinality(Calls(s, "addClaim")) = Cardinality(added)
              /\ Len(StoreAfter(i)) = Len(s.before)
              /\ \A o \in 1..Len(s.before) : o # q => StoreAfter(i)[o] = s.before[o]

\* A reconciliation that added a missing claim and skipped one the item
\* already had.
C2_Witness ==
    \E i \in 1..Len(last.syncs) :
        LET s == last.syncs[i]
        IN /\ Reconciled(s)
           /\ Calls(s, "addClaim") # {}
           /\ \E k \in 1..Len(claims(artworks[s.id])) :
                 \E o \in 1..Len(s.before[Target(s)].claims) :
                     SameSignature(claims(artworks[s.id])[k], s.before[Target(s)].claims[o])

(***************************************************************************)
(* C3.  Idempotence: when a reconciliation of a record returned with all   *)
(* its writes applied, the next sync of the same record issues no write    *)
(* call at all.                                                            *)
(***************************************************************************)
AllApplied(s) == \A k \in 1..Len(s.writes) : s.writes[k].ok

C3_Idempotent ==
    [][(/\ last.op = "update_wikidata"
        /\ last.ret = "return"
        /\ Reconciled(last.syncs[1])
        /\ AllApplied(last.syncs[1])
        /\ last'.op = "update_wikidata"
        /\ last'.ids = last.ids)
       => last'.syncs[1].writes = <<>>]_vars

\* A second reconciliation in a row that found nothing to write, of a
\* record whose item carries what the record computes.
C3_Witness ==
    /\ last.op = "update_wikidata"
    /\ last.ret = "return"
    /\ Reconciled(last.syncs[1])
    /\ last.syncs[1].writes = <<>>
    /\ last.syncs[1].before = items
    /\ items[Target(last.syncs[1])].descriptions
         = Some(description(artworks[last.ids[1]]))

(***************************************************************************)
(* C4.  In a reconciliation the label-edit call is issued exactly when the *)
(* item has no English label or one that differs from the computed label;  *)
(* the same holds of the description-edit call whenever the sync gets to   *)
(* the description (the label edit did not end it).                        *)
(***************************************************************************)
EndedAtLabel(s) ==
    /\ s.ret = "raise"
    /\ s.writes # <<>>
    /\ s.writes[Len(s.writes)].call = "editLabels"

C4_EditOnlyOnDifference ==
    \A s \in Syncs :
        Reconciled(s) =>
          LET old == s.before[Target(s)]
              artwork == artworks[s.id]
          IN /\ Calls(s, "editLabels") # {}
                  <=> (old.labels = None \/ old.labels # Some(label(artwork)))
             /\ Cardinality(Calls(s, "editLabels")) <= 1
             /\ ~EndedAtLabel(s) =>
                  /\ Calls(s, "editDescriptions") # {}
                       <=> (old.descriptions = None
                            \/ old.descriptions # Some(description(artwork)))
                  /\ Cardinality(Calls(s, "editDescriptions")) <= 1
             /\ \A k \in Calls(s, "editLabels") : s.writes[k].text = <<label(artwork)>>
             /\ \A k \in Calls(s, "editDescriptions") :
                   s.writes[k].text = <<description(artwork)>>

\* A reconciliation that left an equal label alone and overwrote a
\* description that differed.
C4_Witness ==
    \E s \in Syncs :
        /\ Reconciled(s)
        /\ s.before[Target(s)].labels = Some(label(artworks[s.id]))
        /\ Calls(s, "editLabels") = {}
        /\ s.before[Target(s)].descriptions # None
        /\ Calls(s, "editDescriptions") # {}

(***************************************************************************)
(* C5.  A sync of a record without the accession_number key issues no      *)
(* write call and hands an error message back to the caller: the call      *)
(* returns, it does not raise.                                             *)
(***************************************************************************)
C5_MissingAccessionYieldsError ==
    \A s \in Syncs :
        "accession_number" \notin DOMAIN artworks[s.id] =>
            /\ s.writes = <<>>
            /\ s.ret # "raise"
            /\ last.ret = "return"

(***************************************************************************)
(* C6.  A sync whose lookup response is not JSON issues no write call, the *)
(* caller of update_wikidata / batch_sync gets a null result for that      *)
(* record (the call returns), and a batch goes on to sync all its records. *)
(***************************************************************************)
C6_ParseFailureYieldsNull ==
    \A i \in 1..Len(last.syncs) :
        last.syncs[i].ret = "none" =>
            /\ last.syncs[i].writes = <<>>
            /\ StoreAfter(i) = last.syncs[i].before
            /\ last.ret = "return"
            /\ Len(last.syncs) = Len(last.ids)

(***************************************************************************)
(* C7.  The create-entity call submits the built statements, the computed  *)
(* label and the computed description "(<accession_number>) <type> by      *)
(* <author>" as the new item's English description.                        *)
(***************************************************************************)
C7_CreateSubmitsComputedDescription ==
    \A s \in Syncs :
        \A k \in Calls(s, "editEntity") :
            /\ s.writes[k].claims = claims(artworks[s.id])
            /\ s.writes[k].text
                 = <<label(artworks[s.id]), description(artworks[s.id])>>

(***************************************************************************)
(* C8.  A sync whose create-entity call succeeded returns a non-null item  *)
(* identifier, also when the Commons-media write that follows fails.       *)
(***************************************************************************)
C8_CreateReturnsIdentifier ==
    \A s \in Syncs :
        Created(s) => s.ret = "tuple" /\ s.item_return # None

(***************************************************************************)
(* C9.  For a CC0 record with an image the Commons-media claim (P4765) is  *)
(* built and is written when the sync creates the item and, when it        *)
(* reconciles, exactly if the item has neither a P18 nor a P4765 claim.    *)
(* For a Copyrighted record it is never built and never written to an      *)
(* item: the one add of it that is issued is the attempt of the create     *)
(* path, which fails and submits nothing.                                  *)
(***************************************************************************)
CommonsWrites(s) == {k \in 1..Len(s.writes) : s.writes[k].property = "P4765"}

HasProperty(item, property) ==
    \E k \in 1..Len(item.claims) : item.claims[k].property = property

C9_CommonsOnlyForCC0 ==
    \A i \in 1..Len(last.syncs) :
        LET s == last.syncs[i]
            artwork == artworks[s.id]
            after == StoreAfter(i)
        IN s.matches \in {0, 1} =>
            /\ (artwork.share_license_status = "CC0" /\ artwork.images # None) =>
                  /\ \A k \in CommonsWrites(s) :
                        /\ s.writes[k].ok
                        /\ Len(s.writes[k].claims) = 1
                        /\ s.writes[k].claims[1].property = "P4765"
                        /\ s.writes[k].claims[1].value = artwork.images[1].print.url
                  /\ Created(s) =>
                        /\ CommonsWrites(s) # {}
                        /\ HasProperty(after[Len(after)], "P4765")
                  /\ (Reconciled(s) /\ s.ret = "tuple") =>
                        /\ CommonsWrites(s) # {}
                             <=> (/\ ~HasProperty(s.before[Target(s)], "P18")
                                  /\ ~HasProperty(s.before[Target(s)], "P4765"))
                        /\ CommonsWrites(s) # {} => HasProperty(after[Target(s)], "P4765")
            /\ artwork.share_license_status = "Copyrighted" =>
                  /\ \A k \in CommonsWrites(s) :
                        /\ ~s.writes[k].ok
                        /\ s.writes[k].claims = <<>>
                        /\ s.matches = 0
                  /\ \A q \in 1..Len(after) :
                        HasProperty(after[q], "P4765")
                            => q <= Len(s.before) /\ HasProperty(s.before[q], "P4765")

\* The claim as first stated: after a sync of a CC0 record with an image
\* the item holds the Commons-media claim, and a sync of a Copyrighted
\* record issues no add of it.
C9_AsStated ==
    \A i \in 1..Len(last.syncs) :
        LET s == last.syncs[i]
            artwork == artworks[s.id]
            after == StoreAfter(i)
        IN /\ (/\ artwork.share_license_status = "CC0"
               /\ artwork.images # None
               /\ s.ret = "tuple"
               /\ (Created(s) \/ Reconciled(s))) =>
                  HasProperty(after[IF Reconciled(s) THEN Target(s) ELSE Len(after)],
                              "P4765")
           /\ artwork.share_license_status = "Copyrighted" => CommonsWrites(s) = {}

\* A Copyrighted record's create, with the failed attempt to add the claim.
C9_Witness ==
    \E s \in Syncs :
        /\ artworks[s.id].share_license_status = "Copyrighted"
        /\ Created(s)
        /\ \E k \in CommonsWrites(s) : ~s.writes[k].ok

(***************************************************************************)
(* C10.  batch_sync returns the records it was given, as many and in the   *)
(* same order, and the record of every sync that returned an item          *)
(* identifier holds the URL of that item exactly once; no record's list    *)
(* ever holds a URL twice.                                                 *)
(***************************************************************************)
Occurrences(list, v) == Cardinality({k \in 1..Len(list) : list[k] = v})

\* The URL of the item the i-th sync created or reconciled.
UrlOfItem(i) ==
    <<"https://www.wikidata.org/wiki/", "Q">>
    \o Digits(Lookup(StoreAfter(i), artworks[last.syncs[i].id].accession_number)[1])

C10_BatchKeepsOrderAndUrls ==
    /\ \A id \in DOMAIN artworks :
          \A v \in SeqToSet(artworks[id].external_resources.wikidata) :
              Occurrences(artworks[id].external_resources.wikidata, v) = 1
    /\ (last.op = "batch_sync" /\ last.ret = "return") =>
          /\ Len(last.result) = Len(last.ids)
          /\ \A k \in 1..Len(last.ids) :
                /\ last.result[k] = artworks[last.ids[k]]
                /\ last.syncs[k].item_return # None =>
                      Occurrences(last.result[k].external_resources.wikidata,
                                  UrlOfItem(k)) = 1

\* A batch that synced the same record twice, both times with an item
\* identifier, and left one URL in its list.
C10_Witness ==
    /\ last.op = "batch_sync"
    /\ last.ret = "return"
    /\ Len(last.ids) = 2
    /\ last.ids[1] = last.ids[2]
    /\ last.syncs[1].item_return # None
    /\ last.syncs[2].item_return # None
    /\ Len(last.result[2].external_resources.wikidata) = 1

(***************************************************************************)
(* C11.  The object-type claim (P31 with the identifier of the type) is    *)
(* among the built statements exactly when the record's type is a key of   *)
(* the table that maps to a non-empty identifier string; for any other     *)
(* type, unknown ones included, the claim is skipped and the sync goes on: *)
(* it does not end with a KeyError.                                        *)
(***************************************************************************)
ObjectTypeClaims(clms) ==
    {k \in 1..Len(clms) : clms[k].property = "P31" /\ clms[k].value # "Q18593264"}

MapsToIdentifier(type) ==
    /\ type \in DOMAIN entities
    /\ entities[type].str
    /\ entities[type].value # ""

C11_ObjectTypeOnlyForMappedTypes ==
    \A s \in Syncs :
        /\ ~MapsToIdentifier(artworks[s.id].type) => s.exception # "KeyError"
        /\ \A k \in Calls(s, "editEntity") :
              ObjectTypeClaims(s.writes[k].claims) # {}
                  <=> MapsToIdentifier(artworks[s.id].type)

(***************************************************************************)
(* C12.  The statements a sync submits hold exactly one inception (P571)   *)
(* claim when the record's earliest and latest creation dates are equal    *)
(* and non-null, and none when they are unequal or null.                   *)
(***************************************************************************)
InceptionClaims(clms) == {k \in 1..Len(clms) : clms[k].property = "P571"}

C12_OneInceptionForEqualDates ==
    \A s \in Syncs :
        \A k \in Calls(s, "editEntity") :
            Cardinality(InceptionClaims(s.writes[k].claims))
                = IF /\ artworks[s.id].creation_date_earliest
                          = artworks[s.id].creation_date_latest
                     /\ artworks[s.id].creation_date_earliest # None
                  THEN 1 ELSE 0

(***************************************************************************)
(* C13.  A label-edit or description-edit call that raises during          *)
(* reconciliation ends the sync with that exception, and the caller's      *)
(* call raises: the failure is not swallowed.                              *)
(***************************************************************************)
C13_ClientFailuresPropagate ==
    \A s \in Syncs :
        \A k \in Calls(s, "editLabels") \cup Calls(s, "editDescriptions") :
            ~s.writes[k].ok => s.ret = "raise" /\ last.ret = "raise"

(***************************************************************************)
(* C14.  A sync whose lookup returns more than one match takes neither     *)
(* branch: it issues no write call, leaves the store as it was and returns *)
(* an empty message with a null item identifier; update_wikidata returns   *)
(* that pair, and batch_sync leaves the record as it was (its              *)
(* external_resources.wikidata list included) and, when it returns, hands  *)
(* the record back in its position.                                        *)
(***************************************************************************)
C14_ManyMatchesDoNothing ==
    [][\A i \in 1..Len(last'.syncs) :
          last'.syncs[i].matches > 1 =>
              /\ last'.syncs[i].ret = "tuple"
              /\ last'.syncs[i].writes = <<>>
              /\ last'.syncs[i].output = <<>>
              /\ last'.syncs[i].item_return = None
              /\ StoreAfter(i)' = last'.syncs[i].before
              /\ artworks'[last'.syncs[i].id] = artworks[last'.syncs[i].id]
              /\ last'.op = "update_wikidata" => last'.ret = "return"
              /\ (last'.op = "batch_sync" /\ last'.ret = "return") =>
                    last'.result[i] = artworks[last'.syncs[i].id]]_vars

\* A batch that returned after a sync of a CC0 record with an image that
\* found two items, followed by a sync that created an item.
C14_Witness ==
    /\ last.op = "batch_sync"
    /\ last.ret = "return"
    /\ Len(last.syncs) = 2
    /\ last.syncs[1].matches = 2
    /\ artworks[last.syncs[1].id].share_license_status = "CC0"
    /\ HasImages(artworks[last.syncs[1].id])
    /\ Created(last.syncs[2])
====
